---- MODULE Spec2Model ----
(***************************************************************************)
(* A model of huynhspm/Image-Captioning:                                   *)
(*   - caption_preprocessing and FlickrDataset8k (src/data/dataset),       *)
(*   - the construction checks of Glove_LSTM and ImageCaptionModule,       *)
(*   - the lifecycle hooks of ImageCaptionModule (validation metrics and   *)
(*     the per-phase image buffer read by inference).                      *)
(* Text is a sequence of Unicode code points (Python str); the model draws *)
(* its characters from Latin-1.                                            *)
(***************************************************************************)
EXTENDS Integers, Sequences, FiniteSets, TLC

VARIABLES
    \* caption_preprocessing, called on a raw text
    text, out, rewrapped,
    \* FlickrDataset8k
    csv, df, lenResult, item,
    \* the file system and the two constructors
    fs, opened, glove, gloveErr, module, moduleErr,
    \* ImageCaptionModule's fields
    val_loss, val_acc, val_acc_best, images,
    \* what the last hook did: its name, the exception it raised, the value
    \* logged as val/acc_best, the images handed to net.greedySearch, the
    \* table handed to logger.log_table
    lastHook, raised, logged, decoded, table,
    \* history: the batch each phase stored last, the value logged by the
    \* on_validation_epoch_end before the last, whether on_train_start ran
    \* since the last and between the last two, the accuracies computed by
    \* on_validation_epoch_end since the last on_train_start and since
    \* construction, the number of validation epochs ended
    stored, prevLogged, resetSince, resetBetween, accsSince, accsAll, nEpochs

preVars == <<text, out, rewrapped>>
dataVars == <<csv, df, lenResult, item>>
ctorVars == <<fs, opened, glove, gloveErr, module, moduleErr>>
metricVars == <<val_loss, val_acc, val_acc_best>>
hookVars == <<lastHook, raised, logged, decoded, table>>
histVars ==
    <<stored, prevLogged, resetSince, resetBetween, accsSince, accsAll, nEpochs>>
moduleVars == <<ctorVars, metricVars, images, hookVars, histVars>>
vars == <<preVars, dataVars, moduleVars>>

(***************************************************************************)
(* Bounds                                                                  *)
(***************************************************************************)
\* longest raw caption text, in characters
MaxLen == 4
\* most rows of the caption table
MaxRows == 12
\* the caption tables differ by a shift of their contents
MaxSeed == 1
\* largest index handed to __getitem__
MaxIndex == 3
\* most targets accumulated by val_acc before it is computed
MaxTargets == 3
\* most validation epochs ended
MaxEpochs == 3
\* largest loss value of a validation step
MaxLoss == 1
\* most images of a batch
MaxBatch == 5

\* the characters raw texts are made of: a B 1 space _ . e-acute
Alphabet == {97, 66, 49, 32, 95, 46, 233}

RECURSIVE TextsOfLen(_)
TextsOfLen(n) ==
    IF n = 0 THEN {<<>>}
    ELSE {Append(t, c) : t \in TextsOfLen(n - 1), c \in Alphabet}

Texts == UNION {TextsOfLen(n) : n \in 0..MaxLen}

(***************************************************************************)
(* Characters: Python's str predicates on code points below 256 and the    *)
(* regular expression's character class                                    *)
(***************************************************************************)
\* str.isspace, which is also what \s matches and what str.split splits at
IsSpace(c) ==
    c \in (9..13) \cup (28..32) \cup {133, 160, 5760} \cup (8192..8202)
          \cup {8232, 8233, 8239, 8287, 12288}

\* str.isalpha of one character (Latin-1)
IsAlphaChar(c) ==
    c \in (65..90) \cup (97..122) \cup {170, 181, 186} \cup (192..214)
          \cup (216..246) \cup (248..255)

\* the class [a-zA-z0-9\s]: its middle range runs from 'A' (65) to 'z' (122)
PatternKeeps(c) ==
    c \in 97..122 \/ c \in 65..122 \/ c \in 48..57 \/ IsSpace(c)

\* re.sub(pattern, '', text): every character the class does not hold goes
ReSub(s) == SelectSeq(s, PatternKeeps)

\* str.split(): the maximal runs of non-whitespace characters
RECURSIVE SplitAcc(_, _, _, _)
SplitAcc(s, i, cur, acc) ==
    IF i > Len(s) THEN (IF cur = <<>> THEN acc ELSE Append(acc, cur))
    ELSE IF IsSpace(s[i])
         THEN SplitAcc(s, i + 1, <<>>, IF cur = <<>> THEN acc ELSE Append(acc, cur))
         ELSE SplitAcc(s, i + 1, Append(cur, s[i]), acc)

Split(s) == SplitAcc(s, 1, <<>>, <<>>)

\* str.lower() of one character (Latin-1: the upper-case letters are 32 below
\* their lower-case ones)
LowerChar(c) ==
    IF c \in (65..90) \cup (192..214) \cup (216..222) THEN c + 32 ELSE c

Lower(w) == [i \in 1..Len(w) |-> LowerChar(w[i])]

\* str.isalpha(): not empty and letters only
IsAlpha(w) == Len(w) > 0 /\ \A i \in 1..Len(w) : IsAlphaChar(w[i])

\* ' '.join(words)
RECURSIVE Join(_)
Join(ws) ==
    IF ws = <<>> THEN <<>>
    ELSE IF Len(ws) = 1 THEN ws[1]
    ELSE ws[1] \o <<32>> \o Join(Tail(ws))

\* 'startseq' and 'endseq'
Startseq == <<115, 116, 97, 114, 116, 115, 101, 113>>
Endseq == <<101, 110, 100, 115, 101, 113>>

\* a faulty variant of the wrapping: no blanks
WrapNoSpace(s) == Startseq \o s \o Endseq

\* 'startseq ' + text + ' endseq'
Wrap(s) == Startseq \o <<32>> \o s \o <<32>> \o Endseq

\* a faulty variant of KeptWords: the words that are not letters only stay
KeptWordsNoFilter(t) ==
    LET words == Split(ReSub(t))
    IN  [i \in 1..Len(words) |-> Lower(words[i])]

\* the words left after the filter, the split, the lower-casing and the
\* removal of the words that are not letters only
KeptWords(t) ==
    LET words == Split(ReSub(t))
        lowered == [i \in 1..Len(words) |-> Lower(words[i])]
    IN  SelectSeq(lowered, IsAlpha)

caption_preprocessing(t) == Wrap(Join(KeptWords(t)))

(***************************************************************************)
(* Calls of caption_preprocessing.  <<>> stands for "no result yet": every *)
(* result holds the two sentinels.                                         *)
(***************************************************************************)
PreInit ==
    /\ text \in Texts
    /\ out = <<>>
    /\ rewrapped = <<>>

PreIdle ==
    /\ text = <<>>
    /\ out = <<>>
    /\ rewrapped = <<>>

\* caption_preprocessing(text)
Preprocess ==
    /\ out = <<>>
    /\ out' = caption_preprocessing(text)
    /\ UNCHANGED <<text, rewrapped, dataVars, moduleVars>>

\* caption_preprocessing applied to its own result
Reapply ==
    /\ out # <<>>
    /\ rewrapped = <<>>
    /\ rewrapped' = caption_preprocessing(out)
    /\ UNCHANGED <<text, out, dataVars, moduleVars>>

(***************************************************************************)
(* FlickrDataset8k.  A table is a function from its row labels 0..n-1      *)
(* (pandas' RangeIndex) to rows of an image file name and a caption.       *)
(***************************************************************************)
\* the rows grouped under one image
GroupSize == 5

\* the caption tables of the model: n rows, row r holding the raw caption
\* "<capital letter>." and an image file name, both shifted by s
RawCaption(k) == <<65 + (k % 26), 46>>

MkTable(n, s) ==
    [r \in 0..(n - 1) |->
        [image |-> <<"img", (r + s) \div GroupSize>>,
         caption |-> RawCaption(r + s)]]

Tables == {MkTable(n, s) : n \in 0..MaxRows, s \in 0..MaxSeed}

NoItem == [status |-> "none", index |-> 0, path |-> <<>>, captions |-> <<>>]

\* osp.join(data_dir, 'flickr8k') with the default data_dir
DatasetDir == <<"data", "flickr8k">>

\* __init__: read_csv, then caption_preprocessing applied to the caption column
ReadAndPreprocess(tbl) ==
    [r \in DOMAIN tbl |->
        [image |-> tbl[r].image,
         caption |-> caption_preprocessing(tbl[r].caption)]]

\* __len__
DatasetLen(d) == Cardinality(DOMAIN d) \div GroupSize

KeyError(index) ==
    [status |-> "KeyError", index |-> index, path |-> <<>>, captions |-> <<>>]

\* a faulty variant of __getitem__: the index is not multiplied
DatasetGetItemUnscaled(d, index) ==
    IF \E i \in 0..(GroupSize - 1) : (index + i) \notin DOMAIN d
    THEN KeyError(index)
    ELSE [status |-> "ok", index |-> index,
          path |-> DatasetDir \o <<"Images", d[index].image>>,
          captions |-> [i \in 1..GroupSize |-> d[index + i - 1].caption]]

\* __getitem__: a row label that is not in the table raises KeyError
DatasetGetItem(d, index) ==
    LET first == index * GroupSize
    IN  IF \E i \in 0..(GroupSize - 1) : (first + i) \notin DOMAIN d
        THEN KeyError(index)
        ELSE [status |-> "ok", index |-> index,
              path |-> DatasetDir \o <<"Images", d[first].image>>,
              captions |-> [i \in 1..GroupSize |-> d[first + i - 1].caption]]

DataInit ==
    /\ csv \in Tables
    /\ df = [built |-> FALSE, rows |-> <<>>]
    /\ lenResult = -1
    /\ item = NoItem

DataIdle ==
    /\ csv = <<>>
    /\ df = [built |-> FALSE, rows |-> <<>>]
    /\ lenResult = -1
    /\ item = NoItem

\* FlickrDataset8k()
FlickrDataset8k_init ==
    /\ ~df.built
    /\ df' = [built |-> TRUE, rows |-> ReadAndPreprocess(csv)]
    /\ UNCHANGED <<csv, lenResult, item, preVars, moduleVars>>

\* len(dataset)
FlickrDataset8k_len ==
    /\ df.built
    /\ lenResult' = DatasetLen(df.rows)
    /\ UNCHANGED <<csv, df, item, preVars, moduleVars>>

\* dataset[index]
FlickrDataset8k_getitem(index) ==
    /\ df.built
    /\ item' = DatasetGetItem(df.rows, index)
    /\ UNCHANGED <<csv, df, lenResult, preVars, moduleVars>>

(***************************************************************************)
(* The precomputed files and the two constructors that need them.  A path  *)
(* is absent, a file, or a directory (for which osp.exists is true and     *)
(* open fails).                                                            *)
(***************************************************************************)
PathKinds == {"absent", "file", "dir"}

MissingMsg ==
    "weight_embedding_path is not exist. Please check path or run datamodule to prepare"

NoErr == [exc |-> "none", msg |-> ""]

\* a faulty variant of load_weight_embedding: the file is opened unchecked
LoadUnchecked(kind) ==
    IF kind = "file" THEN [err |-> NoErr, opens |-> TRUE]
    ELSE IF kind = "dir"
         THEN [err |-> [exc |-> "IsADirectoryError", msg |-> ""], opens |-> TRUE]
         ELSE [err |-> [exc |-> "FileNotFoundError", msg |-> ""], opens |-> TRUE]

\* if not osp.exists(path): raise ValueError(...); with open(path, "rb"): load
load_weight_embedding(kind) ==
    IF kind = "absent"
    THEN [err |-> [exc |-> "ValueError", msg |-> MissingMsg], opens |-> FALSE]
    ELSE IF kind = "dir"
         THEN [err |-> [exc |-> "IsADirectoryError", msg |-> ""], opens |-> TRUE]
         ELSE [err |-> NoErr, opens |-> TRUE]

\* the same check in ImageCaptionModule.__init__, on vocab_size.pkl
LoadVocabSize(kind) ==
    IF kind = "absent"
    THEN [err |-> [exc |-> "ValueError", msg |-> MissingMsg], opens |-> FALSE]
    ELSE IF kind = "dir"
         THEN [err |-> [exc |-> "IsADirectoryError", msg |-> ""], opens |-> TRUE]
         ELSE [err |-> NoErr, opens |-> TRUE]

(***************************************************************************)
(* Metrics.  An accuracy is a reduced fraction; MaxMetric starts at -inf.  *)
(***************************************************************************)
RECURSIVE GCD(_, _)
GCD(a, b) == IF b = 0 THEN a ELSE GCD(b, a % b)

Frac(c, t) == [inf |-> FALSE, num |-> c \div GCD(c, t), den |-> t \div GCD(c, t)]

NegInf == [inf |-> TRUE, num |-> 0, den |-> 1]

Leq(a, b) == a.inf \/ (~b.inf /\ a.num * b.den <= b.num * a.den)

\* MeanMetric() and Accuracy() as constructed and as reset
EmptyLoss == [sum |-> 0, weight |-> 0]
EmptyAcc == [correct |-> 0, total |-> 0]

\* self.val_loss(loss)
LossUpdate(m, loss) == [sum |-> m.sum + loss, weight |-> m.weight + 1]

\* self.val_acc(preds, targets): c of the batch's n predictions are right
AccUpdate(m, c, n) == [correct |-> m.correct + c, total |-> m.total + n]

\* self.val_acc.compute(): right / all, and 0 when nothing was accumulated
AccCompute(m) == IF m.total = 0 THEN Frac(0, 1) ELSE Frac(m.correct, m.total)

\* a faulty variant of MaxUpdate: the last value, not the largest
MaxUpdateLast(best, acc) == acc

\* self.val_acc_best(acc): the larger of the stored value and acc
MaxUpdate(best, acc) == IF Leq(best, acc) THEN acc ELSE best

(***************************************************************************)
(* The per-phase image buffer and inference                                *)
(***************************************************************************)
\* for img in self.images[mode][:4]
InferLimit == 4

\* a batch's images (batch[0]): batch k holds k images
Batch(k) == [i \in 1..k |-> 10 * k + i]
Batches == {Batch(k) : k \in 1..MaxBatch}

\* __init__: self.images
InitialImages == [train |-> <<>>, valid |-> <<>>, test |-> <<>>]

Min(a, b) == IF a <= b THEN a ELSE b

NoTable == [logged |-> FALSE, key |-> <<>>, rows |-> 0]

\* store_data: self.images[mode] = batch[0]
store_data(imgs, batch, mode) ==
    [k \in DOMAIN imgs \cup {mode} |-> IF k = mode THEN batch ELSE imgs[k]]

\* inference(mode): what it raises, the images it hands to net.greedySearch
\* and the table it logs
inference(imgs, mode) ==
    IF mode \notin DOMAIN imgs
    THEN [raised |-> "KeyError", decoded |-> <<>>, table |-> NoTable]
    ELSE LET first == SubSeq(imgs[mode], 1, Min(InferLimit, Len(imgs[mode])))
         IN  [raised |-> "none", decoded |-> first,
              table |-> [logged |-> TRUE, key |-> <<mode, "infer">>,
                         rows |-> Len(first)]]

(***************************************************************************)
(* Construction                                                            *)
(***************************************************************************)
EmbeddingPath == "data/flickr8k/embedding_matrix.pkl"
VocabSizePath == "data/flickr8k/vocab_size.pkl"

NoBatches == [train |-> <<>>, val |-> <<>>, test |-> <<>>]

ModuleStart ==
    /\ opened = {}
    /\ glove = "unbuilt"
    /\ gloveErr = NoErr
    /\ module = "unbuilt"
    /\ moduleErr = NoErr
    /\ val_loss = EmptyLoss
    /\ val_acc = EmptyAcc
    /\ val_acc_best = NegInf
    /\ images = <<>>
    /\ lastHook = "none"
    /\ raised = "none"
    /\ logged = NegInf
    /\ decoded = <<>>
    /\ table = NoTable
    /\ stored = NoBatches
    /\ prevLogged = NegInf
    /\ resetSince = FALSE
    /\ resetBetween = FALSE
    /\ accsSince = {}
    /\ accsAll = {}
    /\ nEpochs = 0

ModuleInit ==
    /\ fs \in [emb : PathKinds, vocab : PathKinds]
    /\ ModuleStart

ModuleIdle ==
    /\ fs = [emb |-> "file", vocab |-> "file"]
    /\ ModuleStart

\* Glove_LSTM(): nn.Embedding.from_pretrained(self.load_weight_embedding(path)).
\* The text encoder is built, or fails to be, before the module: the module
\* is given a net.
Glove_LSTM_init ==
    /\ glove = "unbuilt"
    /\ LET r == load_weight_embedding(fs.emb)
       IN  /\ opened' = IF r.opens THEN opened \cup {EmbeddingPath} ELSE opened
           /\ gloveErr' = r.err
           /\ glove' = IF r.err = NoErr THEN "built" ELSE "failed"
    /\ UNCHANGED <<preVars, dataVars, fs, module, moduleErr, metricVars, images,
                   hookVars, histVars>>

\* ImageCaptionModule(net, optimizer, scheduler)
ImageCaptionModule_init ==
    /\ glove # "unbuilt"
    /\ module = "unbuilt"
    /\ LET r == LoadVocabSize(fs.vocab)
       IN  /\ opened' = IF r.opens THEN opened \cup {VocabSizePath} ELSE opened
           /\ moduleErr' = r.err
           /\ module' = IF r.err = NoErr THEN "built" ELSE "failed"
           /\ images' = IF r.err = NoErr THEN InitialImages ELSE images
    /\ val_loss' = EmptyLoss
    /\ val_acc' = EmptyAcc
    /\ val_acc_best' = NegInf
    /\ UNCHANGED <<preVars, dataVars, fs, glove, gloveErr, hookVars, histVars>>

(***************************************************************************)
(* The hooks.  The trainer calls them on a constructed module, in any      *)
(* order, until one raises.                                                *)
(***************************************************************************)
Ready == module = "built" /\ raised = "none"

\* a hook that ran no inference and raised nothing
Quiet(hook) ==
    /\ lastHook' = hook
    /\ raised' = "none"
    /\ decoded' = <<>>
    /\ table' = NoTable

\* a hook that ends with self.inference(mode)
Infers(hook, mode) ==
    LET r == inference(images, mode)
    IN  /\ lastHook' = hook
        /\ raised' = r.raised
        /\ decoded' = r.decoded
        /\ table' = r.table

\* a faulty variant of on_train_start: val_acc_best is not reset
on_train_start_keeps_best ==
    /\ Ready
    /\ val_loss' = EmptyLoss
    /\ val_acc' = EmptyAcc
    /\ resetSince' = TRUE
    /\ accsSince' = {}
    /\ Quiet("on_train_start")
    /\ UNCHANGED <<preVars, dataVars, ctorVars, images, logged, stored, prevLogged,
                   resetBetween, accsAll, nEpochs, val_acc_best>>

\* the validation metrics forget what the sanity check before training left
on_train_start ==
    /\ Ready
    /\ val_loss' = EmptyLoss
    /\ val_acc' = EmptyAcc
    /\ val_acc_best' = NegInf
    /\ resetSince' = TRUE
    /\ accsSince' = {}
    /\ Quiet("on_train_start")
    /\ UNCHANGED <<preVars, dataVars, ctorVars, images, logged, stored, prevLogged,
                   resetBetween, accsAll, nEpochs>>

\* a faulty variant of on_train_epoch_end: no return before the inference
on_train_epoch_end_infers ==
    /\ Ready
    /\ Infers("on_train_epoch_end", "train")
    /\ UNCHANGED <<preVars, dataVars, ctorVars, metricVars, images, logged,
                   histVars>>

\* return, before self.inference(mode='train')
on_train_epoch_end ==
    /\ Ready
    /\ Quiet("on_train_epoch_end")
    /\ UNCHANGED <<preVars, dataVars, ctorVars, metricVars, images, logged,
                   histVars>>

\* the loss and the accuracy of the step's batch go into val_loss and val_acc
validation_step(in) ==
    /\ Ready
    /\ val_acc.total + in.n <= MaxTargets
    /\ val_loss' = LossUpdate(val_loss, in.loss)
    /\ val_acc' = AccUpdate(val_acc, in.correct, in.n)
    /\ Quiet("validation_step")
    /\ UNCHANGED <<preVars, dataVars, ctorVars, val_acc_best, images, logged,
                   histVars>>

on_validation_epoch_end ==
    /\ Ready
    /\ nEpochs < MaxEpochs
    /\ LET acc == AccCompute(val_acc)
           best == MaxUpdate(val_acc_best, acc)
       IN  /\ val_acc_best' = best
           /\ logged' = best
           /\ accsSince' = accsSince \cup {acc}
           /\ accsAll' = accsAll \cup {acc}
    /\ prevLogged' = logged
    /\ resetBetween' = resetSince
    /\ resetSince' = FALSE
    /\ nEpochs' = nEpochs + 1
    /\ Infers("on_validation_epoch_end", "val")
    /\ UNCHANGED <<preVars, dataVars, ctorVars, val_loss, val_acc, images,
                   stored>>

\* val/loss and val/acc are logged as metric objects with on_epoch=True: the
\* trainer resets them once the validation epoch has ended
epoch_metric_reset ==
    /\ Ready
    /\ lastHook = "on_validation_epoch_end"
    /\ val_loss' = EmptyLoss
    /\ val_acc' = EmptyAcc
    /\ Quiet("epoch_metric_reset")
    /\ UNCHANGED <<preVars, dataVars, ctorVars, val_acc_best, images, logged,
                   histVars>>

on_test_epoch_end ==
    /\ Ready
    /\ Infers("on_test_epoch_end", "test")
    /\ UNCHANGED <<preVars, dataVars, ctorVars, metricVars, images, logged,
                   histVars>>

\* store_data(batch, mode), called by the batch-end hook of a phase
Stores(hook, phase, mode, batch) ==
    /\ images' = store_data(images, batch, mode)
    /\ stored' = [stored EXCEPT ![phase] = batch]
    /\ Quiet(hook)

on_train_batch_end(batch) ==
    /\ Ready
    /\ Stores("on_train_batch_end", "train", "train", batch)
    /\ UNCHANGED <<preVars, dataVars, ctorVars, metricVars, logged, prevLogged,
                   resetSince, resetBetween, accsSince, accsAll, nEpochs>>

on_validation_batch_end(batch) ==
    /\ Ready
    /\ Stores("on_validation_batch_end", "val", "val", batch)
    /\ UNCHANGED <<preVars, dataVars, ctorVars, metricVars, logged, prevLogged,
                   resetSince, resetBetween, accsSince, accsAll, nEpochs>>

on_test_batch_end(batch) ==
    /\ Ready
    /\ Stores("on_test_batch_end", "test", "test", batch)
    /\ UNCHANGED <<preVars, dataVars, ctorVars, metricVars, logged, prevLogged,
                   resetSince, resetBetween, accsSince, accsAll, nEpochs>>

(***************************************************************************)
(* Specifications                                                          *)
(***************************************************************************)
\* what a validation step is given: the loss, and c right predictions of n
StepInputs ==
    {in \in [loss : 1..MaxLoss, correct : 0..MaxTargets, n : 1..MaxTargets] :
        in.correct <= in.n}

NextPre ==
    \/ Preprocess
    \/ Reapply

NextData ==
    \/ FlickrDataset8k_init
    \/ FlickrDataset8k_len
    \/ \E index \in (-1)..MaxIndex : FlickrDataset8k_getitem(index)

\* construction, then the validation loop of a fit: every step input, and
\* one batch
Next ==
    \/ Glove_LSTM_init
    \/ ImageCaptionModule_init
    \/ on_train_start
    \/ \E in \in StepInputs : validation_step(in)
    \/ on_validation_batch_end(Batch(1))
    \/ on_validation_epoch_end
    \/ epoch_metric_reset

\* construction, then the hooks that write and read the image buffer: every
\* batch, and no validation step
NextInfer ==
    \/ Glove_LSTM_init
    \/ ImageCaptionModule_init
    \/ \E batch \in Batches : on_train_batch_end(batch)
    \/ \E batch \in Batches : on_validation_batch_end(batch)
    \/ \E batch \in Batches : on_test_batch_end(batch)
    \/ on_train_epoch_end
    \/ on_validation_epoch_end
    \/ on_test_epoch_end

\* both files are there
Init == PreIdle /\ DataIdle /\ ModuleIdle

Spec == Init /\ [][Next]_vars

\* each file is there or not
InitInfer == PreIdle /\ DataIdle /\ ModuleInit

SpecInfer == InitInfer /\ [][NextInfer]_vars

InitPre == PreInit /\ DataIdle /\ ModuleIdle

SpecPre == InitPre /\ [][NextPre]_vars

InitData == PreIdle /\ DataInit /\ ModuleIdle

SpecData == InitData /\ [][NextData]_vars

(***************************************************************************)
(* Validation best accuracy                                                *)
(***************************************************************************)
AtValidationEpochEnd == lastHook = "on_validation_epoch_end"

\* the largest of a non-empty set of accuracies
MaxOf(S) == CHOOSE a \in S : \A b \in S : Leq(b, a)

\* C1 as stated: whatever hooks ran, the val_acc_best computed by
\* on_validation_epoch_end is the largest accuracy of all validation epochs
\* so far, and is not below the value computed by the one before.
C1_BestNeverDecreases ==
    AtValidationEpochEnd =>
        /\ logged = MaxOf(accsAll)
        /\ ~prevLogged.inf => Leq(prevLogged, logged)

\* C1, amended: the val_acc_best computed by on_validation_epoch_end is the
\* largest accuracy of the validation epochs ended since the last
\* on_train_start (of all of them when on_train_start never ran), and is not
\* below the value computed by the on_validation_epoch_end before unless
\* on_train_start ran between the two.
C1_BestNeverDecreasesWithinFit ==
    AtValidationEpochEnd =>
        /\ logged = MaxOf(accsSince)
        /\ (~prevLogged.inf /\ ~resetBetween) => Leq(prevLogged, logged)

\* two validation epochs of one fit, the second with the better accuracy,
\* after an earlier epoch whose result on_train_start dropped
C1_Witness ==
    /\ AtValidationEpochEnd
    /\ ~prevLogged.inf
    /\ ~resetBetween
    /\ ~Leq(logged, prevLogged)
    /\ accsAll # accsSince

\* C8: on_train_start leaves val_loss, val_acc and val_acc_best as
\* constructed, and the val_acc_best computed by on_validation_epoch_end is
\* the largest accuracy of the validation epochs ended since the last
\* on_train_start (results from before it do not count).
C8_BestIsMaxSinceTrainStart ==
    /\ lastHook = "on_train_start" =>
        (val_loss = EmptyLoss /\ val_acc = EmptyAcc /\ val_acc_best = NegInf)
    /\ AtValidationEpochEnd =>
        (logged = MaxOf(accsSince) /\ val_acc_best = logged)

\* a validation epoch before on_train_start had a better accuracy than the
\* two epochs after it, and the value computed is the best of those two
C8_Witness ==
    /\ AtValidationEpochEnd
    /\ Cardinality(accsSince) >= 2
    /\ \E a \in accsAll : ~Leq(a, logged)
    /\ ~Leq(logged, prevLogged)

(***************************************************************************)
(* Construction errors                                                     *)
(***************************************************************************)
\* C3: when the embedding-matrix file is absent Glove_LSTM() raises ValueError
\* with the message that asks to check the path or run the datamodule, opens
\* nothing and yields no object; the same holds of ImageCaptionModule() and
\* vocab_size.pkl.
C3_MissingFileRaisesValueError ==
    /\ (fs.emb = "absent" /\ glove # "unbuilt") =>
        /\ glove = "failed"
        /\ gloveErr.exc = "ValueError"
        /\ gloveErr.msg =
            "weight_embedding_path is not exist. Please check path or run datamodule to prepare"
        /\ EmbeddingPath \notin opened
    /\ (fs.vocab = "absent" /\ module # "unbuilt") =>
        /\ module = "failed"
        /\ moduleErr.exc = "ValueError"
        /\ moduleErr.msg =
            "weight_embedding_path is not exist. Please check path or run datamodule to prepare"
        /\ VocabSizePath \notin opened
        /\ images = <<>>

\* both files absent and both constructors called
C3_Witness ==
    /\ fs = [emb |-> "absent", vocab |-> "absent"]
    /\ glove = "failed"
    /\ module = "failed"
    /\ opened = {}

(***************************************************************************)
(* Greedy decoding and the image buffer                                    *)
(***************************************************************************)
\* C6: inference runs (images are handed to net.greedySearch, a table is
\* logged) only in on_validation_epoch_end and on_test_epoch_end, never in
\* on_train_epoch_end, and it decodes the first min(4, size) images of the
\* batch that the batch-end hook of the same phase stored last.
C6_GreedyOnlyAtValOrTestEnd ==
    /\ (table.logged \/ decoded # <<>>) =>
        lastHook \in {"on_validation_epoch_end", "on_test_epoch_end"}
    /\ lastHook = "on_train_epoch_end" => (~table.logged /\ decoded = <<>>)
    /\ (lastHook = "on_validation_epoch_end" /\ table.logged) =>
        decoded = SubSeq(stored.val, 1, Min(4, Len(stored.val)))
    /\ (lastHook = "on_test_epoch_end" /\ table.logged) =>
        decoded = SubSeq(stored.test, 1, Min(4, Len(stored.test)))

\* a validation epoch ends after batches of all three phases were stored, the
\* validation batch being the largest: four of its images are decoded
C6_Witness ==
    /\ lastHook = "on_validation_epoch_end"
    /\ table.logged
    /\ Len(stored.val) = 5
    /\ Len(decoded) = 4
    /\ Len(stored.test) = 2
    /\ Len(stored.train) = 3

\* C10 as stated: the slot inference reads at the end of a validation or test
\* phase is one of those made at construction, and when the phase has stored
\* no batch yet inference raises nothing and logs a table of zero rows.
C10_UnwrittenSlotReadsEmpty ==
    /\ lastHook = "on_validation_epoch_end" =>
        /\ "val" \in DOMAIN InitialImages
        /\ stored.val = <<>> => (raised = "none" /\ table.logged /\ table.rows = 0)
    /\ lastHook = "on_test_epoch_end" =>
        /\ "test" \in DOMAIN InitialImages
        /\ stored.test = <<>> => (raised = "none" /\ table.logged /\ table.rows = 0)

(***************************************************************************)
(* The dataset                                                             *)
(***************************************************************************)
\* C2: for a table of n rows len(dataset) is floor(n / 5), and for
\* 0 <= i < floor(n / 5) dataset[i] raises nothing and returns the 5 captions
\* of rows 5i..5i+4, which are rows of the table, with the image path made
\* from row 5i.
C2_LenAndItems ==
    LET n == Cardinality(DOMAIN csv)
        i == item.index
    IN  df.built =>
        /\ lenResult # -1 => lenResult = n \div 5
        /\ (item.status # "none" /\ 0 <= i /\ i < n \div 5) =>
            /\ item.status = "ok"
            /\ Len(item.captions) = 5
            /\ \A k \in 0..4 :
                /\ (5 * i + k) \in DOMAIN csv
                /\ item.captions[k + 1] = df.rows[5 * i + k].caption
                /\ item.captions[k + 1] = caption_preprocessing(csv[5 * i + k].caption)
            /\ item.path = <<"data", "flickr8k", "Images", csv[5 * i].image>>

\* the second image of a table of 12 rows, whose length is 2
C2_Witness ==
    /\ Cardinality(DOMAIN csv) = 12
    /\ lenResult = 2
    /\ item.status = "ok"
    /\ item.index = 1

(***************************************************************************)
(* Caption preprocessing                                                   *)
(***************************************************************************)
IsAsciiLetter(c) == c \in (65..90) \cup (97..122)

IsDigit(c) == c \in 48..57

\* string.punctuation
IsAsciiPunct(c) == c \in (33..47) \cup (58..64) \cup (91..96) \cup (123..126)

\* the text holds a character of the set
Contains(s, chars) == \E i \in 1..Len(s) : s[i] \in chars

\* C4: the result holds no punctuation character, and each of its tokens is
\* made of letters only.
C4_OutputTokensAreLetters ==
    out # <<>> =>
        /\ \A i \in 1..Len(out) : ~IsAsciiPunct(out[i])
        /\ \A k \in 1..Len(Split(out)) :
            \A j \in 1..Len(Split(out)[k]) : IsAlphaChar(Split(out)[k][j])

\* a text with a digit, an underscore and a word that is kept
C4_Witness ==
    /\ out # <<>>
    /\ Contains(text, 48..57)
    /\ Contains(text, {95})
    /\ Len(Split(out)) = 3

\* the result of a call has at least two tokens, the first 'startseq' and
\* the last 'endseq'
OutputWrappedInSentinels ==
    out # <<>> =>
        /\ Len(Split(out)) >= 2
        /\ Split(out)[1] = <<115, 116, 97, 114, 116, 115, 101, 113>>
        /\ Split(out)[Len(Split(out))] = <<101, 110, 100, 115, 101, 113>>

\* C7 as stated: applied to its own result, caption_preprocessing returns
\* 'startseq ' + that result + ' endseq'.
C7_ReapplyWrapsAgain ==
    rewrapped # <<>> => rewrapped = Startseq \o <<32>> \o out \o <<32>> \o Endseq

\* C7, amended: applied to its own result, caption_preprocessing returns the
\* tokens of that result between one more pair of sentinels; the string is
\* 'startseq ' + that result + ' endseq' when the result holds a word between
\* its sentinels, and 'startseq startseq endseq endseq' when it holds none
\* (the result is then 'startseq  endseq', whose two spaces become one).
C7_ReapplyWrapsTokensAgain ==
    rewrapped # <<>> =>
        /\ Split(rewrapped) = <<Startseq>> \o Split(out) \o <<Endseq>>
        /\ Len(Split(out)) > 2 =>
            rewrapped = Startseq \o <<32>> \o out \o <<32>> \o Endseq
        /\ Len(Split(out)) <= 2 =>
            /\ out = Startseq \o <<32, 32>> \o Endseq
            /\ rewrapped =
                Startseq \o <<32>> \o Startseq \o <<32>> \o Endseq \o <<32>> \o Endseq

\* the result of a text of two words, applied again
C7_Witness ==
    /\ rewrapped # <<>>
    /\ Len(Split(out)) = 4
    /\ Len(Split(rewrapped)) = 6

\* the letters of a word, lower-cased
LettersLower(w) == Lower(SelectSeq(w, IsAsciiLetter))

\* C9 as stated: the filter leaves only ASCII letters, digits and whitespace,
\* and every word of the text that is made of ASCII letters and punctuation,
\* with a letter in it, is a token of the result as its letters lower-cased.
C9_PunctuatedWordsKept ==
    out # <<>> =>
        /\ \A i \in 1..Len(ReSub(text)) :
            \/ IsAsciiLetter(ReSub(text)[i])
            \/ IsDigit(ReSub(text)[i])
            \/ IsSpace(ReSub(text)[i])
        /\ \A k \in 1..Len(Split(text)) :
            LET w == Split(text)[k]
            IN  (/\ \A j \in 1..Len(w) : IsAsciiLetter(w[j]) \/ IsAsciiPunct(w[j])
                 /\ \E j \in 1..Len(w) : IsAsciiLetter(w[j]))
                => \E m \in 1..Len(Split(out)) : Split(out)[m] = LettersLower(w)

====
